---- MODULE Spec2Model ----
(***************************************************************************)
(* Model of spektrum/reporting/testrail.py: the TestRail renderer          *)
(* (section reconciliation, case creation on demand, result reporting)     *)
(* and the TestRail client's pagination.                                   *)
(*                                                                         *)
(* Identifiers are sequences of one-character strings, so that the name    *)
(* conversions are computed and not assumed.  Python's None is 0; remote   *)
(* ids start at 1, so truthiness of an id is "# None".                     *)
(***************************************************************************)
EXTENDS Integers, Sequences, FiniteSets, TLC

\* ------------------------------------------------------------------ bounds
MaxSections == 5
MaxRemoteCases == 3
MaxItems == 230
MaxRequests == 4
MaxRecords == 3
MaxDepth == 2
NumReporters == 2

None == 0

\* ------------------------------------------------------- local spec tree
\* The nested spec classes handed to the renderer (tests/example_data style):
\*   class A(Spec):  class InX(Spec): def t_A
\*   class B(Spec):  class InX(Spec): def tA
Nodes == {"A", "A.InX", "B", "B.InX"}

TopSpecs == <<"A", "B">>

Children(n) ==
    CASE n = "A" -> <<"A.InX">>
      [] n = "B" -> <<"B.InX">>
      [] OTHER -> <<>>

Qualname(n) ==
    CASE n = "A" -> << <<"A">> >>
      [] n = "A.InX" -> << <<"A">>, <<"I", "n", "X">> >>
      [] n = "B" -> << <<"B">> >>
      [] OTHER -> << <<"B">>, <<"I", "n", "X">> >>

CasesOf(n) ==
    CASE n = "A.InX" -> { <<"t", "_", "A">> }
      [] n = "B.InX" -> { <<"t", "A">> }
      [] OTHER -> {}

RECURSIVE Descendants(_)
Descendants(n) ==
    LET kids == {Children(n)[i] : i \in 1..Len(Children(n))}
    IN kids \cup UNION {Descendants(k) : k \in kids}

\* ------------------------------------------------------ name conversions
Upper == {"A", "B", "I", "X"}

RECURSIVE camelcase_to_spaces(_)
camelcase_to_spaces(value) ==
    IF Len(value) <= 1 THEN value
    ELSE LET front == SubSeq(value, 1, Len(value) - 1)
             last == value[Len(value)]
             prev == value[Len(value) - 1]
         IN IF last \in Upper /\ prev \notin Upper /\ prev # " " /\ prev # "_"
            THEN camelcase_to_spaces(front) \o <<" ", last>>
            ELSE camelcase_to_spaces(front) \o <<last>>

snakecase_to_spaces(value) ==
    [i \in 1..Len(value) |-> IF value[i] = "_" THEN " " ELSE value[i]]

\* the display name of a raw case name
CaseName(raw_case_name) ==
    IF \E i \in 1..Len(raw_case_name) : raw_case_name[i] = "_"
    THEN snakecase_to_spaces(raw_case_name)
    ELSE camelcase_to_spaces(raw_case_name)

_get_class_hierarchy(n) == Qualname(n)

\* ------------------------------------------------------------------ state
VARIABLES
    sections,      \* remote store: sections in creation order (id = position)
    cases,         \* remote store: cases in creation order (id = position)
    specs,         \* self.specs: node -> NoEntry or the cached TestRailSpecData
    run,           \* self.run
    pc,            \* position of the session
    todo,          \* reconcile_spec_and_section calls still to make, in order
    all_sections,  \* _ensure_spec_hierarchy: the listed sections
    idx,           \* _ensure_spec_hierarchy: i + 1
    parent_id,     \* _ensure_spec_hierarchy: parent_id
    escaped,       \* handlers an exception has propagated out of
    failedNodes,   \* nodes for which add_section answered non-success
    anyRaise,      \* some remote call raised a transport error
    adds,          \* add_section / add_case / add_run calls issued, by name
    listsOk,       \* every list call so far succeeded
    complete0,     \* the remote store matched the local tree when the session began
    run0,          \* the pre-supplied run id (tr_run)
    addRunOut,     \* outcome of add_run, "none" before it is called
    resultRuns,    \* run ids add_result_for_case was called with
    lastReport,    \* what the last report_case did
    pgServer,      \* pagination: the server's number of cases and its behaviour
    pgPc,          \* pagination: position of get_cases
    pgParams,      \* pagination: the params dict of the next request
    pgRequests,    \* pagination: the offset parameter of every request sent
    pgItems,       \* pagination: the items collected
    trData,        \* restructuring: the sections of the response, in list order
    flattened,     \* restructuring: the records keyed by id, in insertion order
    level,         \* restructuring: the depth level being processed
    at_depth,      \* restructuring: ids of the level still to visit, in order
    structured,    \* restructuring: the top-level keys of the result
    children,      \* restructuring: id -> the record's "children" key, if any
    inserts,       \* restructuring: id -> times it was set as a top-level key
    trPc,          \* restructuring: position of structure_testrail_dict
    ccPc,          \* concurrent reporting: reporter -> position in report_case
    ccJob          \* concurrent reporting: reporter -> the case it reports

rendererVars == <<sections, cases, specs, run, pc, todo, all_sections, idx, parent_id,
                  escaped, failedNodes, anyRaise, adds, listsOk, complete0, run0,
                  addRunOut, resultRuns, lastReport>>

pgVars == <<pgServer, pgPc, pgParams, pgRequests, pgItems>>

treeVars == <<trData, flattened, level, at_depth, structured, children, inserts, trPc>>

ccVars == <<ccPc, ccJob>>

vars == <<rendererVars, pgVars, treeVars, ccVars>>

\* what an action of one component leaves alone in the others
nonRendererVars == <<pgVars, treeVars, ccVars>>

nonPgVars == <<rendererVars, treeVars, ccVars>>

nonTreeVars == <<rendererVars, pgVars, ccVars>>

NoEntry == [absent |-> TRUE]
Suite == 1
PreRun == 7
NewRun == PreRun + 1
Outcomes == {"ok", "fail", "raise"}

\* what a report_case call did: how the case id was obtained (res), whether
\* get_cases was called, whether add_result_for_case was called and with which
\* ids, and whether an exception left report_case
Report(n, raw, res, listed, submitted, run_id, case_id, raised) ==
    [node |-> n, raw |-> raw, res |-> res, listed |-> listed, submitted |-> submitted,
     run_id |-> run_id, case_id |-> case_id, raised |-> raised]

NoReport == Report("", <<>>, "none", FALSE, FALSE, None, None, FALSE)

\* ------------------------------------------------------------ remote store
Section(id, name, parent) ==
    [id |-> id, name |-> name, parent_id |-> parent, suite_id |-> Suite]

Case(id, title, section) == [id |-> id, title |-> title, section_id |-> section]

\* what the server can answer to add_section / add_case: a store that is full
\* (the model's bound) or a case posted to no section is refused
AddSectionOutcomes == IF Len(sections) < MaxSections THEN Outcomes ELSE {"fail", "raise"}

AddCaseOutcomes(section_id) ==
    IF section_id # None /\ Len(cases) < MaxRemoteCases THEN Outcomes ELSE {"fail", "raise"}

\* "no section" and "no case" (Python's None where a record is expected)
NoSection == Section(None, <<>>, None)

NoCase == Case(None, <<>>, None)

\* ------------------------------------------------------------- the renderer
\* faulty variant: a section is adopted on its name alone
_find_existing_section_by_name(all, name, parent) ==
    LET hits == {i \in 1..Len(all) : all[i].name = name}
    IN IF hits = {} THEN NoSection
       ELSE all[CHOOSE i \in hits : \A j \in hits : i <= j]

\* the first section of the list with this name and this parent, or NoSection
_find_existing_section(all, name, parent) ==
    LET hits == {i \in 1..Len(all) : all[i].name = name /\ all[i].parent_id = parent}
    IN IF hits = {} THEN NoSection
       ELSE all[CHOOSE i \in hits : \A j \in hits : i <= j]

\* faulty variant: the list is read under a key the response does not have
_get_all_sections_wrong_key(out) == <<>>

\* _get_all_sections: the listed sections, [] on a non-success response or an exception
_get_all_sections(out) == IF out = "ok" THEN sections ELSE <<>>

\* faulty variant: a non-success add_section response is raised to the caller
OnAddSection_raising(out) ==
    CASE out = "ok" -> "adopt"
      [] OTHER -> "propagate"

\* what _ensure_spec_hierarchy does with add_section's outcome
OnAddSection(out) ==
    CASE out = "ok" -> "adopt"
      [] out = "fail" -> "return"
      [] OTHER -> "propagate"

\* reconcile_spec_and_section after _ensure_spec_hierarchy returned: the node is
\* cached and its children are reconciled next
AfterEnsure(n, section_id, suite_id) ==
    /\ specs' = [specs EXCEPT ![n] =
                    [section_id |-> section_id, suite_id |-> suite_id, cases |-> <<>>]]
    /\ todo' = Children(n) \o Tail(todo)
    /\ pc' = IF todo' = <<>> THEN "start" ELSE "list"
    /\ idx' = 1
    /\ parent_id' = None
    /\ all_sections' = <<>>

TrackTopLevel ==
    /\ pc = "track"
    /\ todo' = TopSpecs
    /\ pc' = IF TopSpecs = <<>> THEN "start" ELSE "list"
    /\ UNCHANGED <<sections, cases, specs, run, all_sections, idx, parent_id, escaped,
                   failedNodes, anyRaise, adds, listsOk, complete0, run0, addRunOut,
                   resultRuns, lastReport>>
    /\ UNCHANGED nonRendererVars

\* reconcile_spec_and_section up to the loop of _ensure_spec_hierarchy
ReconcileList ==
    /\ pc = "list"
    /\ \E out \in Outcomes :
        /\ all_sections' = _get_all_sections(out)
        /\ listsOk' = (listsOk /\ out = "ok")
        /\ anyRaise' = (anyRaise \/ out = "raise")
    /\ idx' = 1
    /\ parent_id' = None
    /\ pc' = "ensure"
    /\ UNCHANGED <<sections, cases, specs, run, todo, escaped, failedNodes, adds,
                   complete0, run0, addRunOut, resultRuns, lastReport>>
    /\ UNCHANGED nonRendererVars

\* one iteration of the loop of _ensure_spec_hierarchy; the last one returns to
\* reconcile_spec_and_section
EnsureSegment ==
    /\ pc = "ensure"
    /\ LET n == Head(todo)
           class_hierarchy == _get_class_hierarchy(n)
           section_name == camelcase_to_spaces(class_hierarchy[idx])
           existing_section == _find_existing_section(all_sections, section_name, parent_id)
           last == (idx = Len(class_hierarchy))
           Adopt(section_id, suite_id) ==
               IF last THEN AfterEnsure(n, section_id, suite_id)
               ELSE /\ idx' = idx + 1
                    /\ parent_id' = section_id
                    /\ UNCHANGED <<specs, todo, pc, all_sections>>
       IN IF existing_section # NoSection
          THEN /\ Adopt(existing_section.id, existing_section.suite_id)
               /\ UNCHANGED <<sections, escaped, failedNodes, anyRaise, adds>>
          ELSE \E out \in AddSectionOutcomes :
                /\ adds' = adds \cup {"add_section"}
                /\ anyRaise' = (anyRaise \/ out = "raise")
                /\ CASE OnAddSection(out) = "adopt" ->
                          /\ sections' = Append(sections,
                                 Section(Len(sections) + 1, section_name, parent_id))
                          /\ Adopt(Len(sections) + 1, Suite)
                          /\ UNCHANGED <<escaped, failedNodes>>
                     [] OnAddSection(out) = "return" ->
                          /\ AfterEnsure(n, None, None)
                          /\ failedNodes' = failedNodes \cup {n}
                          /\ UNCHANGED <<sections, escaped>>
                     [] OTHER ->
                          \* the exception leaves track_top_level: the rest of the
                          \* pass is not run
                          /\ escaped' = escaped \cup {"track_top_level"}
                          /\ todo' = <<>>
                          /\ pc' = "start"
                          /\ idx' = 1
                          /\ parent_id' = None
                          /\ all_sections' = <<>>
                          /\ UNCHANGED <<sections, specs, failedNodes>>
    /\ UNCHANGED <<cases, run, listsOk, complete0, run0, addRunOut, resultRuns,
                   lastReport>>
    /\ UNCHANGED nonRendererVars

\* faulty variant: a run is created even when one was supplied
NeedsRun_always(dry_run) == ~dry_run

\* start_reporting's guard for creating a run
NeedsRun(dry_run) == ~dry_run /\ run = None

\* what start_reporting does with add_run's outcome
OnAddRun(out) ==
    CASE out = "ok" -> "adopt"
      [] out = "fail" -> "skip"
      [] OTHER -> "propagate"

StartReporting ==
    /\ pc = "start"
    /\ pc' = "report"
    /\ \E dry_run \in BOOLEAN :
        IF NeedsRun(dry_run)
        THEN \E out \in Outcomes :
              /\ adds' = adds \cup {"add_run"}
              /\ addRunOut' = out
              /\ run' = IF OnAddRun(out) = "adopt" THEN NewRun ELSE run
              /\ escaped' = IF OnAddRun(out) = "propagate"
                            THEN escaped \cup {"start_reporting"} ELSE escaped
              /\ anyRaise' = (anyRaise \/ out = "raise")
        ELSE UNCHANGED <<adds, addRunOut, run, escaped, anyRaise>>
    /\ UNCHANGED <<sections, cases, specs, todo, all_sections, idx, parent_id,
                   failedNodes, listsOk, complete0, run0, resultRuns, lastReport>>
    /\ UNCHANGED nonRendererVars

\* get_cases: the cases of the section, or of the whole suite when no section id
\* is given (the section_id parameter is only sent when it is truthy)
get_cases(section_id) ==
    IF section_id # None
    THEN SelectSeq(cases, LAMBDA c : c.section_id = section_id)
    ELSE cases

\* next((c for c in seq if ...), none): the first element of seq among the
\* positions hits, or none
FirstWith(seq, hits, none) ==
    IF hits = {} THEN none ELSE seq[CHOOSE i \in hits : \A j \in hits : i <= j]

NoCached == [case_id |-> None, section_id |-> None, raw_name |-> <<>>, name |-> <<>>]

\* faulty variant: the cached case list is never consulted
CachedCaseOf_miss(cached_spec, raw) == NoCached

\* report_case's lookup of the case in the cached spec
CachedCaseOf(cached_spec, raw) ==
    FirstWith(cached_spec.cases,
              {i \in 1..Len(cached_spec.cases) : cached_spec.cases[i].raw_name = raw},
              NoCached)

\* what _create_case_on_demand does with add_case's outcome: an exception is
\* caught by its try block
OnAddCase(out) ==
    CASE out = "ok" -> "adopt"
      [] out = "fail" -> "none"
      [] OTHER -> "none"

\* what _create_case_on_demand does with get_cases's outcome: an exception is
\* caught, a non-success response has no "cases" and reads as an empty list
OnGetCases(out) ==
    CASE out = "ok" -> "listed"
      [] out = "fail" -> "empty"
      [] OTHER -> "none"

\* faulty variant: the failed case is cached all the same, without ids
CachedOnFailure_appending(cached_spec, raw) ==
    [cached_spec EXCEPT !.cases = Append(@,
        [case_id |-> None, section_id |-> None, raw_name |-> raw, name |-> CaseName(raw)])]

\* the cached spec when _create_case_on_demand returns None, None: nothing appended
CachedOnFailure(cached_spec, raw) == cached_spec

\* _create_case_on_demand(cached_spec, case) with the outcomes gc of get_cases and
\* ac of add_case: the ids returned, the remote cases and the cached spec afterwards,
\* whether add_case was called, and how the call ended (res)
_create_case_on_demand(cached_spec, raw, gc, ac) ==
    LET case_name == CaseName(raw)
        tr_cases == IF OnGetCases(gc) = "listed" THEN get_cases(cached_spec.section_id)
                    ELSE <<>>
        tr_case == FirstWith(tr_cases,
                             {i \in 1..Len(tr_cases) : tr_cases[i].title = case_name},
                             NoCase)
        new_id == Len(cases) + 1
        Entry(case_id, section_id) ==
            [case_id |-> case_id, section_id |-> section_id,
             raw_name |-> raw, name |-> case_name]
        Failed(res, added) ==
            [case_id |-> None, section_id |-> None, cases |-> cases,
             cached |-> CachedOnFailure(cached_spec, raw), added |-> added, res |-> res]
    IN IF OnGetCases(gc) = "propagate" THEN Failed("raised", FALSE)
       ELSE IF OnGetCases(gc) = "none" THEN Failed("failed", FALSE)
       ELSE IF tr_case # NoCase
       THEN [case_id |-> tr_case.id, section_id |-> tr_case.section_id, cases |-> cases,
             cached |-> [cached_spec EXCEPT !.cases =
                            Append(@, Entry(tr_case.id, tr_case.section_id))],
             added |-> FALSE, res |-> "found"]
       ELSE IF OnAddCase(ac) = "adopt"
       THEN [case_id |-> new_id, section_id |-> cached_spec.section_id,
             cases |-> Append(cases, Case(new_id, case_name, cached_spec.section_id)),
             cached |-> [cached_spec EXCEPT !.cases =
                            Append(@, Entry(new_id, cached_spec.section_id))],
             added |-> TRUE, res |-> "created"]
       ELSE IF OnAddCase(ac) = "propagate" THEN Failed("raised", TRUE)
       ELSE Failed("failed", TRUE)

\* report_case's guard for going on after case resolution
Resolved(case_id) == case_id # None

\* faulty variant: the result is submitted whether or not a run id is known
HasRun_unchecked == TRUE

\* report_case's guard for submitting the result
HasRun == run # None

\* what report_case does with add_result_for_case's outcome
OnAddResult(out) ==
    CASE out = "raise" -> "propagate"
      [] OTHER -> "return"

\* report_case after case resolution: the result is submitted, or dropped
Submit(n, raw, res, listed, case_id, raisedBefore) ==
    IF Resolved(case_id) /\ HasRun
    THEN \E out \in Outcomes :
          /\ resultRuns' = resultRuns \cup {run}
          /\ escaped' = IF OnAddResult(out) = "propagate"
                        THEN escaped \cup {"report_case"} ELSE escaped
          /\ anyRaise' = (raisedBefore \/ out = "raise")
          /\ lastReport' = Report(n, raw, res, listed, TRUE, run, case_id,
                                  OnAddResult(out) = "propagate")
    ELSE /\ lastReport' = Report(n, raw, res, listed, FALSE, None, None, FALSE)
         /\ anyRaise' = raisedBefore
         /\ UNCHANGED <<resultRuns, escaped>>

ReportCase(n, raw) ==
    /\ pc = "report"
    /\ IF specs[n] = NoEntry
       THEN /\ lastReport' = Report(n, raw, "untracked", FALSE, FALSE, None, None, FALSE)
            /\ UNCHANGED <<cases, specs, adds, listsOk, resultRuns, escaped, anyRaise>>
       ELSE LET cached_spec == specs[n]
                cached_case == CachedCaseOf(cached_spec, raw)
            IN IF cached_case # NoCached
               THEN /\ Submit(n, raw, "cached", FALSE, cached_case.case_id, anyRaise)
                    /\ UNCHANGED <<cases, specs, adds, listsOk>>
               ELSE \E gc \in Outcomes :
                    \E ac \in AddCaseOutcomes(cached_spec.section_id) :
                      \* ac only matters when add_case is called
                      LET r0 == _create_case_on_demand(cached_spec, raw, gc, "fail")
                      IN (r0.added \/ ac = "fail") /\
                      LET r == _create_case_on_demand(cached_spec, raw, gc, ac)
                          early == (gc = "raise" \/ (r.added /\ ac = "raise"))
                      IN /\ cases' = r.cases
                         /\ specs' = [specs EXCEPT ![n] = r.cached]
                         /\ listsOk' = (listsOk /\ gc = "ok")
                         /\ adds' = IF r.added THEN adds \cup {"add_case"} ELSE adds
                         /\ IF r.res = "raised"
                            THEN /\ lastReport' = Report(n, raw, "raised", TRUE, FALSE,
                                                         None, None, TRUE)
                                 /\ escaped' = escaped \cup {"report_case"}
                                 /\ anyRaise' = TRUE
                                 /\ UNCHANGED resultRuns
                            ELSE Submit(n, raw, r.res, TRUE, r.case_id,
                                        anyRaise \/ early)
    /\ UNCHANGED <<sections, run, pc, todo, all_sections, idx, parent_id, failedNodes,
                   complete0, run0, addRunOut>>
    /\ UNCHANGED nonRendererVars

\* ------------------------------------------------------------- sessions
NoDupSections ==
    \A i, j \in 1..Len(sections) :
        (sections[i].name = sections[j].name
            /\ sections[i].parent_id = sections[j].parent_id) => i = j

\* the id of the remote section at the end of the chain's first k names, or None
RECURSIVE SectionAt(_, _)
SectionAt(chain, k) ==
    IF k = 0 THEN None
    ELSE LET up == SectionAt(chain, k - 1)
             hits == {s \in {sections[i] : i \in 1..Len(sections)} :
                         s.name = camelcase_to_spaces(chain[k]) /\ s.parent_id = up}
         IN IF (k > 1 /\ up = None) \/ hits = {} THEN None
            ELSE (CHOOSE s \in hits : TRUE).id

\* the remote store holds, without duplicates, a section for every name of every
\* chain and a case for every local test
RemoteComplete ==
    /\ NoDupSections
    /\ \A n \in Nodes :
        LET sid == SectionAt(Qualname(n), Len(Qualname(n)))
        IN /\ sid # None
           /\ \A raw \in CasesOf(n) :
                \E i \in 1..Len(cases) :
                    cases[i].title = CaseName(raw) /\ cases[i].section_id = sid

\* what a fully successful session over an empty store leaves in the store
CompleteSections ==
    << Section(1, camelcase_to_spaces(Qualname("A.InX")[1]), None),
       Section(2, camelcase_to_spaces(Qualname("A.InX")[2]), 1),
       Section(3, camelcase_to_spaces(Qualname("B.InX")[1]), None),
       Section(4, camelcase_to_spaces(Qualname("B.InX")[2]), 3) >>

CompleteCases ==
    << Case(1, CaseName(<<"t", "_", "A">>), 2), Case(2, CaseName(<<"t", "A">>), 4) >>

\* the remote stores a session can start from: what earlier sessions left, having
\* stopped after any number of creations
InitStores ==
    {<<SubSeq(CompleteSections, 1, k), <<>>>> : k \in 0..Len(CompleteSections)}
    \cup {<<CompleteSections, SubSeq(CompleteCases, 1, k)>> : k \in 1..Len(CompleteCases)}

\* ------------------------------------------------------------ pagination
Limit == 100
DefaultOffset == 0
DefaultLimit == 150
Absent == -1

ServerModes == {"honest", "always_next", "stuck_offset", "no_fields"}

Min(a, b) == IF a < b THEN a ELSE b

\* the server's answer to a list request.  It serves the page at the requested
\* offset (0 when none is sent) of at most the requested limit; "stuck_offset"
\* ignores the offset parameter; "always_next" always sets _links.next;
\* "no_fields" leaves offset and limit out of the answer.
ServerPage(server, params) ==
    LET off == IF server.mode = "stuck_offset" \/ params.offset = Absent
               THEN 0 ELSE params.offset
        lim == params.limit
        page == [i \in 1..(Min(off + lim, server.n) - Min(off, server.n)) |-> off + i]
    IN [offset |-> IF server.mode = "no_fields" THEN Absent ELSE off,
        limit |-> IF server.mode = "no_fields" THEN Absent ELSE lim,
        cases |-> page,
        next |-> (server.mode = "always_next" \/ off + lim < server.n)]

\* faulty variant: the next page is asked at the page's own offset
NextOffset_same(data) == IF data.offset = Absent THEN DefaultOffset ELSE data.offset

\* the offset _get_paginated asks the next page at
NextOffset(data) ==
    LET offset == IF data.offset = Absent THEN DefaultOffset ELSE data.offset
        limit == IF data.limit = Absent THEN DefaultLimit ELSE data.limit
    IN offset + limit

\* the limit _get_paginated asks the next page with
NextLimit(data) == IF data.limit = Absent THEN DefaultLimit ELSE data.limit

\* whether _get_paginated follows the page with another request
FollowsNext(data) == data.next

\* get_cases: the first request carries the limit and no offset
GetCases ==
    /\ pgPc = "idle"
    /\ pgPc' = "request"
    /\ pgParams' = [offset |-> Absent, limit |-> Limit]
    /\ UNCHANGED <<pgServer, pgRequests, pgItems>>
    /\ UNCHANGED nonPgVars

\* one call of _get_paginated: a request, and the params of the recursive call
\* (the page's items come first, the recursive call's items are appended to them)
GetPaginated ==
    /\ pgPc = "request"
    /\ Len(pgRequests) < MaxRequests
    /\ LET data == ServerPage(pgServer, pgParams)
       IN /\ pgRequests' = Append(pgRequests, pgParams.offset)
          /\ pgItems' = pgItems \o data.cases
          /\ IF FollowsNext(data)
             THEN /\ pgParams' = [offset |-> NextOffset(data), limit |-> NextLimit(data)]
                  /\ pgPc' = "request"
             ELSE /\ pgPc' = "done"
                  /\ UNCHANGED pgParams
    /\ UNCHANGED pgServer
    /\ UNCHANGED nonPgVars

PgIdle ==
    /\ pgServer = [n |-> 0, mode |-> "honest"]
    /\ pgPc = "off"
    /\ pgParams = [offset |-> Absent, limit |-> Limit]
    /\ pgRequests = <<>>
    /\ pgItems = <<>>

\* --------------------------------------------------------- restructuring
\* a section of the get_sections response
Record(id, parent, depth) == [id |-> id, parent_id |-> parent, depth |-> depth]

\* the "children" key of a record: absent, or a dict whose keys are kids
NoChildren == [has |-> FALSE, kids |-> {}]

EmptyChildren == [has |-> TRUE, kids |-> {}]

\* the keys of a dict of records, and the record under a key
Keys(d) == {d[i].id : i \in 1..Len(d)}

Get(d, k) == d[CHOOSE i \in 1..Len(d) : d[i].id = k]

\* flatten_testrail_dict: the records keyed by their id; a later record with the
\* same id replaces the earlier one, the key keeps its first position
flatten_testrail_dict(d) ==
    LET firsts == SelectSeq([i \in 1..Len(d) |-> i],
                            LAMBDA i : \A j \in 1..(i - 1) : d[j].id # d[i].id)
    IN [n \in 1..Len(firsts) |->
          d[CHOOSE i \in 1..Len(d) :
              /\ d[i].id = d[firsts[n]].id
              /\ \A j \in (i + 1)..Len(d) : d[j].id # d[i].id]]

\* faulty variant: the deepest level is never computed
max_depth_default(d) == 1

\* structure_testrail_dict's max_depth: the greatest depth, 1 for no records
max_depth(d) ==
    IF Len(d) > 0
    THEN CHOOSE m \in {d[i].depth : i \in 1..Len(d)} :
            \A i \in 1..Len(d) : d[i].depth <= m
    ELSE 1

\* restructure's at_depth: the keys of the records of this depth, in dict order
AtDepth(d, lvl) ==
    LET hit == SelectSeq(d, LAMBDA r : r.depth = lvl)
    IN [i \in 1..Len(hit) |-> hit[i].id]

\* faulty variant: a parent that is not in the mapping is passed over
ParentLookup_get(d, parent) == IF parent \in Keys(d) THEN "found" ELSE "skip"

\* sections[parent_id]: a key that is not in the mapping raises KeyError
ParentLookup(d, parent) == IF parent \in Keys(d) THEN "found" ELSE "KeyError"

\* faulty variant: the depth-0 step inserts the record whether or not it is there
IsNewRoot_always(top, section_id) == TRUE

\* restructure's guard of the depth-0 step: section_id not in structured
IsNewRoot(top, section_id) == section_id \notin top

\* structured[parent_id]['children'][section_id] = section
Attach(parent, section_id) ==
    children' = [children EXCEPT ![parent] =
                    [has |-> TRUE, kids |-> @.kids \cup {section_id}]]

\* structure_testrail_dict up to the first call of restructure
StructureTestrailDict ==
    /\ trPc = "start"
    /\ flattened' = flatten_testrail_dict(trData)
    /\ level' = max_depth(flattened')
    /\ at_depth' = AtDepth(flattened', level')
    /\ trPc' = "loop"
    /\ UNCHANGED <<trData, structured, children, inserts>>
    /\ UNCHANGED nonTreeVars

\* one iteration of restructure's loop over the records of the level
RestructureSection ==
    /\ trPc = "loop"
    /\ at_depth # <<>>
    /\ LET section_id == Head(at_depth)
           parent == Get(flattened, section_id).parent_id
       IN IF parent # None /\ parent \notin structured
          THEN IF ParentLookup(flattened, parent) = "found"
               THEN /\ structured' = structured \cup {parent}
                    /\ inserts' = [inserts EXCEPT ![parent] = @ + 1]
                    /\ Attach(parent, section_id)
                    /\ at_depth' = Tail(at_depth)
                    /\ UNCHANGED trPc
               ELSE IF ParentLookup(flattened, parent) = "KeyError"
               THEN /\ trPc' = "error"
                    /\ UNCHANGED <<structured, inserts, children, at_depth>>
               ELSE /\ at_depth' = Tail(at_depth)
                    /\ UNCHANGED <<structured, inserts, children, trPc>>
          ELSE IF parent # None
          THEN IF children[parent].has
               THEN /\ Attach(parent, section_id)
                    /\ at_depth' = Tail(at_depth)
                    /\ UNCHANGED <<structured, inserts, trPc>>
               ELSE /\ trPc' = "error"
                    /\ UNCHANGED <<structured, inserts, children, at_depth>>
          ELSE IF IsNewRoot(structured, section_id)
          THEN /\ structured' = structured \cup {section_id}
               /\ inserts' = [inserts EXCEPT ![section_id] = @ + 1]
               /\ children' = [children EXCEPT ![section_id] = EmptyChildren]
               /\ at_depth' = Tail(at_depth)
               /\ UNCHANGED trPc
          ELSE /\ at_depth' = Tail(at_depth)
               /\ UNCHANGED <<structured, inserts, children, trPc>>
    /\ UNCHANGED <<trData, flattened, level>>
    /\ UNCHANGED nonTreeVars

\* restructure returns: structure_testrail_dict calls it for the next level up, or
\* returns the result after level 0
RestructureReturn ==
    /\ trPc = "loop"
    /\ at_depth = <<>>
    /\ IF level > 0
       THEN /\ level' = level - 1
            /\ at_depth' = AtDepth(flattened, level - 1)
            /\ UNCHANGED trPc
       ELSE /\ trPc' = "done"
            /\ UNCHANGED <<level, at_depth>>
    /\ UNCHANGED <<trData, flattened, structured, children, inserts>>
    /\ UNCHANGED nonTreeVars

\* the responses restructuring is applied to: up to MaxRecords sections with ids
\* 1, 2, ..., each with no parent or any parent id (one id is in no response) and
\* any depth
Responses ==
    UNION {[1..n -> [parent_id : 0..(MaxRecords + 1), depth : 0..MaxDepth]] :
              n \in 0..MaxRecords}

TreeStart(response) ==
    /\ trData = [i \in 1..Len(response) |->
                 Record(i, response[i].parent_id, response[i].depth)]
    /\ flattened = <<>>
    /\ level = 0
    /\ at_depth = <<>>
    /\ structured = {}
    /\ children = [k \in 1..(MaxRecords + 1) |-> NoChildren]
    /\ inserts = [k \in 1..(MaxRecords + 1) |-> 0]

TreeIdle ==
    /\ TreeStart(<<>>)
    /\ trPc = "off"

\* ------------------------------------------------- concurrent reporting
\* report_case called from several reporters at once, interleaved at the remote
\* calls: each action is one remote call together with the local code that
\* follows it up to the next remote call
Reporters == 1..NumReporters

NoJob == [node |-> "", raw |-> <<>>, case_id |-> None]

\* the cached case entry _create_case_on_demand appends
CachedCase(case_id, section_id, raw) ==
    [case_id |-> case_id, section_id |-> section_id, raw_name |-> raw,
     name |-> CaseName(raw)]

\* what report_case and the reporters leave alone outside the cache and the cases
concFrame ==
    <<sections, run, pc, todo, all_sections, idx, parent_id, escaped, failedNodes,
      anyRaise, adds, complete0, run0, addRunOut, resultRuns, lastReport>>

\* report_case up to its first remote call: the lookup in the cache
ConcLookup(t, n, raw) ==
    /\ ccPc[t] = "idle"
    /\ specs[n] # NoEntry
    /\ LET cached_case == CachedCaseOf(specs[n], raw)
       IN IF cached_case # NoCached
          THEN /\ ccPc' = [ccPc EXCEPT ![t] = "add_result"]
               /\ ccJob' = [ccJob EXCEPT ![t] =
                              [node |-> n, raw |-> raw, case_id |-> cached_case.case_id]]
          ELSE /\ ccPc' = [ccPc EXCEPT ![t] = "get_cases"]
               /\ ccJob' = [ccJob EXCEPT ![t] =
                              [node |-> n, raw |-> raw, case_id |-> None]]
    /\ UNCHANGED <<cases, specs, listsOk>>
    /\ UNCHANGED concFrame
    /\ UNCHANGED <<pgVars, treeVars>>

\* _create_case_on_demand: get_cases answers; a case with the title is adopted and
\* cached, otherwise add_case is called next
ConcGetCases(t) ==
    /\ ccPc[t] = "get_cases"
    /\ \E gc \in Outcomes :
        LET n == ccJob[t].node
            raw == ccJob[t].raw
            tr_cases == IF OnGetCases(gc) = "listed" THEN get_cases(specs[n].section_id)
                        ELSE <<>>
            tr_case == FirstWith(tr_cases,
                                 {i \in 1..Len(tr_cases) :
                                      tr_cases[i].title = CaseName(raw)},
                                 NoCase)
        IN /\ listsOk' = (listsOk /\ gc = "ok")
           /\ IF OnGetCases(gc) = "none"
              THEN /\ ccPc' = [ccPc EXCEPT ![t] = "idle"]
                   /\ ccJob' = [ccJob EXCEPT ![t] = NoJob]
                   /\ UNCHANGED specs
              ELSE IF tr_case # NoCase
              THEN /\ specs' = [specs EXCEPT ![n].cases =
                                  Append(@, CachedCase(tr_case.id, tr_case.section_id, raw))]
                   /\ ccPc' = [ccPc EXCEPT ![t] = "add_result"]
                   /\ ccJob' = [ccJob EXCEPT ![t].case_id = tr_case.id]
              ELSE /\ ccPc' = [ccPc EXCEPT ![t] = "add_case"]
                   /\ UNCHANGED <<specs, ccJob>>
    /\ UNCHANGED cases
    /\ UNCHANGED concFrame
    /\ UNCHANGED <<pgVars, treeVars>>

\* _create_case_on_demand: add_case answers; the created case is cached
ConcAddCase(t) ==
    /\ ccPc[t] = "add_case"
    /\ LET n == ccJob[t].node
           raw == ccJob[t].raw
           new_id == Len(cases) + 1
       IN \E ac \in AddCaseOutcomes(specs[n].section_id) :
            IF OnAddCase(ac) = "adopt"
            THEN /\ cases' = Append(cases, Case(new_id, CaseName(raw), specs[n].section_id))
                 /\ specs' = [specs EXCEPT ![n].cases =
                                Append(@, CachedCase(new_id, specs[n].section_id, raw))]
                 /\ ccPc' = [ccPc EXCEPT ![t] = "add_result"]
                 /\ ccJob' = [ccJob EXCEPT ![t].case_id = new_id]
            ELSE /\ ccPc' = [ccPc EXCEPT ![t] = "idle"]
                 /\ ccJob' = [ccJob EXCEPT ![t] = NoJob]
                 /\ UNCHANGED <<cases, specs>>
    /\ UNCHANGED listsOk
    /\ UNCHANGED concFrame
    /\ UNCHANGED <<pgVars, treeVars>>

\* report_case after case resolution: the result is submitted when a run is known
ConcAddResult(t) ==
    /\ ccPc[t] = "add_result"
    /\ ccPc' = [ccPc EXCEPT ![t] = "idle"]
    /\ ccJob' = [ccJob EXCEPT ![t] = NoJob]
    /\ resultRuns' = IF Resolved(ccJob[t].case_id) /\ HasRun
                     THEN resultRuns \cup {run} ELSE resultRuns
    /\ UNCHANGED <<cases, specs, listsOk>>
    /\ UNCHANGED <<sections, run, pc, todo, all_sections, idx, parent_id, escaped,
                   failedNodes, anyRaise, adds, complete0, run0, addRunOut, lastReport>>
    /\ UNCHANGED <<pgVars, treeVars>>

ConcIdle ==
    /\ ccPc = [t \in Reporters |-> "off"]
    /\ ccJob = [t \in Reporters |-> NoJob]

\* ---------------------------------------------------------- specifications
RendererInit ==
    /\ specs = [n \in Nodes |-> NoEntry]
    /\ pc = "track"
    /\ todo = <<>>
    /\ all_sections = <<>>
    /\ idx = 1
    /\ parent_id = None
    /\ escaped = {}
    /\ failedNodes = {}
    /\ anyRaise = FALSE
    /\ adds = {}
    /\ listsOk = TRUE
    /\ addRunOut = "none"
    /\ resultRuns = {}
    /\ lastReport = NoReport

\* TestRailRenderer(reporting_options) over the remote store as earlier sessions left it
Init ==
    /\ \E st \in InitStores : sections = st[1] /\ cases = st[2]
    /\ run \in {None, PreRun}
    /\ run0 = run
    /\ complete0 = RemoteComplete
    /\ RendererInit
    /\ PgIdle
    /\ TreeIdle
    /\ ConcIdle

Next ==
    \/ TrackTopLevel
    \/ ReconcileList
    \/ EnsureSegment
    \/ StartReporting
    \/ \E n \in Nodes : \E raw \in CasesOf(n) : ReportCase(n, raw)

Spec == Init /\ [][Next]_vars

\* get_cases against a server holding n cases, for every n and server behaviour
InitPage ==
    /\ sections = <<>>
    /\ cases = <<>>
    /\ run = None
    /\ run0 = None
    /\ complete0 = FALSE
    /\ RendererInit
    /\ pgServer \in [n : 0..MaxItems, mode : ServerModes]
    /\ pgPc = "idle"
    /\ pgParams = [offset |-> Absent, limit |-> Limit]
    /\ pgRequests = <<>>
    /\ pgItems = <<>>
    /\ TreeIdle
    /\ ConcIdle

NextPage ==
    \/ GetCases
    \/ GetPaginated

SpecPage == InitPage /\ [][NextPage]_vars

\* structure_testrail_dict applied to every response of the bounded set
InitTree ==
    /\ sections = <<>>
    /\ cases = <<>>
    /\ run = None
    /\ run0 = None
    /\ complete0 = FALSE
    /\ RendererInit
    /\ PgIdle
    /\ \E response \in Responses : TreeStart(response)
    /\ trPc = "start"
    /\ ConcIdle

NextTree ==
    \/ StructureTestrailDict
    \/ RestructureSection
    \/ RestructureReturn

SpecTree == InitTree /\ [][NextTree]_vars

\* reporters started after track_top_level and start_reporting succeeded: every
\* node has its section, the remote store holds the sections and some of the cases
InitConc ==
    /\ sections = CompleteSections
    /\ \E k \in 0..Len(CompleteCases) : cases = SubSeq(CompleteCases, 1, k)
    /\ specs = [n \in Nodes |->
                  [section_id |-> SectionAt(Qualname(n), Len(Qualname(n))),
                   suite_id |-> Suite, cases |-> <<>>]]
    /\ run \in {None, PreRun}
    /\ run0 = run
    /\ complete0 = RemoteComplete
    /\ pc = "report"
    /\ todo = <<>>
    /\ all_sections = <<>>
    /\ idx = 1
    /\ parent_id = None
    /\ escaped = {}
    /\ failedNodes = {}
    /\ anyRaise = FALSE
    /\ adds = {}
    /\ listsOk = TRUE
    /\ addRunOut = "none"
    /\ resultRuns = {}
    /\ lastReport = NoReport
    /\ PgIdle
    /\ TreeIdle
    /\ ccPc = [t \in Reporters |-> "idle"]
    /\ ccJob = [t \in Reporters |-> NoJob]

NextConc ==
    \/ \E t \in Reporters : \E n \in Nodes : \E raw \in CasesOf(n) : ConcLookup(t, n, raw)
    \/ \E t \in Reporters : ConcGetCases(t)
    \/ \E t \in Reporters : ConcAddCase(t)
    \/ \E t \in Reporters : ConcAddResult(t)

SpecConc == InitConc /\ [][NextConc]_vars

\* ------------------------------------------------------------------ claims
AllReported ==
    \A n \in Nodes :
        /\ specs[n] # NoEntry
        /\ specs[n].section_id # None
        /\ \A raw \in CasesOf(n) : CachedCaseOf(specs[n], raw) # NoCached

\* C1: idempotence of reconciliation.  In a session that began with a remote store
\* already holding a section for every name of every chain and a case for every
\* local test, and whose list calls all succeeded, track_top_level and report_case
\* issue no add_section and no add_case call.
C1_Idempotent ==
    (complete0 /\ listsOk) => adds \cap {"add_section", "add_case"} = {}

C1_Witness ==
    /\ complete0 /\ listsOk
    /\ pc = "report"
    /\ AllReported
    /\ adds \cap {"add_section", "add_case"} = {}

\* C2: no duplicate sections.  Whatever the outcome of the list-sections calls, no
\* two remote sections share both name and parent id.
C2_NoDuplicateSections == NoDupSections

\* after a failed case resolution: report_case returned, nothing cached, nothing sent
C3_UnresolvedState ==
    lastReport.res = "failed" =>
        /\ ~lastReport.raised
        /\ ~lastReport.submitted
        /\ \A i \in 1..Len(specs[lastReport.node].cases) :
              specs[lastReport.node].cases[i].raw_name # lastReport.raw

\* a report of the case whose resolution failed resolves again
C3_Retry ==
    (lastReport.res = "failed" /\ ReportCase(lastReport.node, lastReport.raw))
        => lastReport'.listed

\* C3: unresolved case.  When case resolution fails inside report_case, report_case
\* returns without raising, the spec's cached case list has no entry for the case,
\* no result is submitted, and the next report of the same case calls get_cases again.
C3_Unresolved == []C3_UnresolvedState /\ [][C3_Retry]_vars

C3_Witness ==
    /\ lastReport.res = "failed"
    /\ run # None
    /\ specs[lastReport.node].section_id # None

\* C4: section creation failure.  After add_section answered non-success for a node,
\* the node has no cache entry and none of its descendants is reconciled in the pass.
C4_AbortsSubtree ==
    \A n \in failedNodes :
        /\ specs[n] = NoEntry
        /\ pc \in {"list", "ensure"} => Head(todo) \notin Descendants(n)

\* the nodes in the subtree of a node whose add_section answered non-success
FailedSubtree == failedNodes \cup UNION {Descendants(n) : n \in failedNodes}

\* C5: non-success responses never escalate.  As long as no remote call raises, no
\* exception leaves track_top_level, start_reporting or report_case, and after the
\* pass every node outside the failed nodes' subtrees is cached with its section id.
C5_NoEscalation ==
    ~anyRaise =>
        /\ escaped = {}
        /\ ~lastReport.raised
        /\ pc \in {"start", "report"} =>
              \A n \in Nodes \ FailedSubtree :
                  specs[n] # NoEntry /\ specs[n].section_id # None

C5_Witness ==
    /\ ~anyRaise
    /\ pc = "report"
    /\ failedNodes = {"A"}
    /\ specs["B.InX"] # NoEntry /\ specs["B.InX"].section_id # None
    /\ lastReport.res = "failed" /\ lastReport.node = "B.InX"
    /\ "add_case" \in adds

\* C6: exhausted retries are not fatal.  No transport error of a remote call
\* propagates out of track_top_level, start_reporting or report_case.
C6_NeverPropagates == escaped = {}

\* C7: result submission gating.  add_result_for_case is called only with a known
\* run id and a resolved case id, the one the cache holds for the case; otherwise
\* report_case drops the result and returns normally.
C7_Gating ==
    /\ lastReport.submitted =>
          /\ lastReport.run_id # None
          /\ lastReport.run_id = run
          /\ lastReport.case_id # None
          /\ \E i \in 1..Len(specs[lastReport.node].cases) :
                /\ specs[lastReport.node].cases[i].raw_name = lastReport.raw
                /\ specs[lastReport.node].cases[i].case_id = lastReport.case_id
    /\ ~lastReport.submitted => ~lastReport.raised
    /\ resultRuns # {} => run # None

C7_Witness ==
    /\ lastReport.submitted
    /\ lastReport.res = "created"
    /\ lastReport.case_id = Len(cases)

\* the run id and the calls made with it, in a state
C8_RunState ==
    /\ run0 # None => ("add_run" \notin adds /\ run = run0)
    /\ resultRuns \subseteq {run}
    /\ addRunOut \in {"fail", "raise"} => (run = None /\ resultRuns = {})

\* a run id, once held, is kept by every step
C8_RunKept == run # None => run' = run

\* C8: run handle.  add_run is never called when a run id was pre-supplied; a run
\* id, once held, never changes, and every add_result_for_case call carries it;
\* after a non-success add_run no add_result_for_case call is issued.
C8_RunHandle == []C8_RunState /\ [][C8_RunKept]_vars

C8_Witness ==
    /\ run0 = None
    /\ addRunOut = "ok"
    /\ run = NewRun
    /\ resultRuns = {NewRun}
    /\ lastReport.submitted /\ lastReport.res = "cached"

\* the offset a request is served at
OffsetOf(offset) == IF offset = Absent THEN 0 ELSE offset

\* the number of requests that fetch n cases, page by page
Pages(n) == IF n = 0 THEN 1 ELSE (n + Limit - 1) \div Limit

\* C9: pagination result.  Against a server that serves consecutive pages of at
\* most limit items, reports offset and limit, and sets next exactly while items
\* remain, every following request asks for offset = previous offset + limit, the
\* items come back once each in the server's order, and no request follows the
\* first page without a next link.
C9_Pagination ==
    pgServer.mode = "honest" =>
        /\ \A k \in 2..Len(pgRequests) :
              pgRequests[k] = OffsetOf(pgRequests[k - 1]) + Limit
        /\ pgItems = [i \in 1..Min(pgServer.n, Len(pgRequests) * Limit) |-> i]
        /\ pgPc = "request" => Len(pgRequests) < Pages(pgServer.n)
        /\ pgPc = "done" =>
              /\ pgItems = [i \in 1..pgServer.n |-> i]
              /\ Len(pgRequests) = Pages(pgServer.n)

C9_Witness ==
    /\ pgServer = [n |-> 2 * Limit + 30, mode |-> "honest"]
    /\ pgPc = "done"
    /\ Len(pgItems) = 2 * Limit + 30
    /\ pgRequests = <<Absent, Limit, 2 * Limit>>

\* C10: pagination terminates for every server behaviour.  get_cases never sends a
\* request whose offset is not strictly greater than the previous request's: it
\* stops when the offset makes no progress.
C10_StopsWithoutProgress ==
    \A k \in 2..Len(pgRequests) :
        OffsetOf(pgRequests[k]) > OffsetOf(pgRequests[k - 1])

\* every record with a parent has it in the mapping, one level up; a record
\* without a parent has depth 0
ValidChains ==
    \A i \in 1..Len(trData) :
        LET r == trData[i]
        IN IF r.parent_id = None THEN r.depth = 0
           ELSE /\ r.parent_id \in Keys(trData)
                /\ Get(trData, r.parent_id).depth = r.depth - 1

\* the record sits d "children" links below a top-level entry without a parent,
\* each link leading from its parent to it
RECURSIVE Sits(_, _)
Sits(id, d) ==
    IF d = 0 THEN id \in structured /\ Get(trData, id).parent_id = None
    ELSE LET parent == Get(trData, id).parent_id
         IN /\ parent \in Keys(trData)
            /\ children[parent].has
            /\ id \in children[parent].kids
            /\ Sits(parent, d - 1)

\* C11: restructuring nests by depth.  When structure_testrail_dict returns for
\* records with valid parent chains, every record of depth d is reached from a
\* depth-0 root by d children links along its parent chain; for no records the
\* result is empty.
C11_NestsByDepth ==
    (trPc = "done" /\ ValidChains) =>
        /\ \A i \in 1..Len(trData) : Sits(trData[i].id, trData[i].depth)
        /\ (trData = <<>> => structured = {})

C11_Witness ==
    /\ trPc = "done" /\ ValidChains
    /\ \E i \in 1..Len(trData) :
        trData[i].depth = MaxDepth /\ Sits(trData[i].id, MaxDepth)

\* the number of places of the result the record is found at: as a top-level entry
\* and as a child of each record holding it
Positions(id) ==
    Cardinality({t \in {id} : t \in structured})
    + Cardinality({p \in Keys(trData) : id \in children[p].kids})

\* C12: restructuring yields a rooted forest.  When structure_testrail_dict returns
\* for records with valid parent chains, the top-level keys are exactly the ids of
\* the records without a parent, and every record is at exactly one position.
C12_RootedForest ==
    (trPc = "done" /\ ValidChains) =>
        /\ structured = {k \in Keys(trData) : Get(trData, k).parent_id = None}
        /\ \A k \in Keys(trData) : Positions(k) = 1

\* the children of a record: the records naming it as their parent
ChildrenOf(id) == {k \in Keys(trData) : Get(trData, k).parent_id = id}

\* when structure_testrail_dict returns, a record without a parent is a top-level
\* entry set once, holding all its children; no key is ever set twice
C19_RootsState ==
    /\ \A k \in DOMAIN inserts : inserts[k] <= 1
    /\ trPc = "done" =>
        \A k \in Keys(trData) :
            Get(trData, k).parent_id = None =>
                /\ k \in structured
                /\ inserts[k] = 1
                /\ children[k] = [has |-> TRUE, kids |-> ChildrenOf(k)]

\* no step of restructuring removes a top-level entry or a child attached before
C19_KeepsChildren ==
    /\ structured \subseteq structured'
    /\ \A k \in DOMAIN children :
        /\ children[k].kids \subseteq children'[k].kids
        /\ children[k].has => children'[k].has

\* C19: roots are inserted once and keep their children.  A record without a
\* parent becomes a top-level entry exactly once, whether a child or its own
\* depth-0 step materializes it, and every child attached to it is still attached
\* when restructuring ends.
C19_RootsOnce == []C19_RootsState /\ [][C19_KeepsChildren]_vars

C19_Witness ==
    /\ trPc = "done"
    /\ \E k \in Keys(trData) :
        /\ Get(trData, k).parent_id = None
        /\ Get(trData, k).depth = 0
        /\ inserts[k] = 1
        /\ Cardinality(ChildrenOf(k)) >= 2
        /\ children[k].kids = ChildrenOf(k)
        /\ \A c \in ChildrenOf(k) : Get(trData, c).depth = 1

\* records whose parent_id is set but is not a key of the mapping
Dangling ==
    {k \in Keys(trData) :
        Get(trData, k).parent_id # None /\ Get(trData, k).parent_id \notin Keys(trData)}

\* C20: an unresolvable parent fails loudly.  For a mapping holding a record whose
\* parent_id is set but is no key of the mapping, structure_testrail_dict never
\* returns: while it runs, such a record is still to be visited, and visiting it
\* raises.
C20_FailsLoudly ==
    Dangling # {} =>
        /\ trPc # "done"
        /\ trPc = "loop" =>
            \E k \in Dangling :
                \/ Get(trData, k).depth < level
                \/ \E i \in 1..Len(at_depth) : at_depth[i] = k

C20_Witness ==
    /\ trPc = "error"
    /\ Dangling # {}
    /\ structured # {}

\* the remote section with this id carries the chain's k-th name, under a section
\* carrying the names before it in the same way (under no section for k = 1)
RECURSIVE OnChain(_, _, _)
OnChain(id, chain, k) ==
    /\ id \in 1..Len(sections)
    /\ sections[id].name = camelcase_to_spaces(chain[k])
    /\ IF k = 1 THEN sections[id].parent_id = None
       ELSE OnChain(sections[id].parent_id, chain, k - 1)

\* C13: sibling uniqueness is scoped by parent.  Every section id recorded for a
\* node, adopted or created, is a section of the node's own name under the section
\* resolved for its enclosing chain, and so is every parent id held while a chain
\* is walked; the ids recorded for A.InX and B.InX are distinct.
C13_ScopedByParent ==
    /\ \A n \in Nodes :
        (specs[n] # NoEntry /\ specs[n].section_id # None) =>
            OnChain(specs[n].section_id, Qualname(n), Len(Qualname(n)))
    /\ (pc = "ensure" /\ idx > 1) => OnChain(parent_id, Qualname(Head(todo)), idx - 1)
    /\ (/\ specs["A.InX"] # NoEntry /\ specs["A.InX"].section_id # None
        /\ specs["B.InX"] # NoEntry /\ specs["B.InX"].section_id # None)
           => specs["A.InX"].section_id # specs["B.InX"].section_id

\* both nodes resolved to sections of one name, in a session that listed sections
\* successfully and created some
C13_Witness ==
    /\ specs["A.InX"] # NoEntry /\ specs["A.InX"].section_id # None
    /\ specs["B.InX"] # NoEntry /\ specs["B.InX"].section_id # None
    /\ specs["A.InX"].section_id # specs["B.InX"].section_id
    /\ listsOk
    /\ "add_section" \in adds
    /\ sections[specs["A.InX"].section_id].name = sections[specs["B.InX"].section_id].name

\* the spec's cached case list holds at most one entry per raw name
C14_OneEntry ==
    \A n \in Nodes :
        specs[n] # NoEntry =>
            \A i, j \in 1..Len(specs[n].cases) :
                specs[n].cases[i].raw_name = specs[n].cases[j].raw_name => i = j

\* a report_case for a case that is in the cache: no get_cases, no add_case, the
\* cache and the remote cases untouched, the result sent with the cached case id
C14_Reuse ==
    \A n \in Nodes : \A raw \in CasesOf(n) :
        (/\ specs[n] # NoEntry
         /\ CachedCaseOf(specs[n], raw) # NoCached
         /\ ReportCase(n, raw)) =>
            /\ lastReport'.res = "cached"
            /\ ~lastReport'.listed
            /\ cases' = cases
            /\ specs' = specs
            /\ adds' = adds
            /\ lastReport'.submitted = (run # None)
            /\ lastReport'.submitted =>
                lastReport'.case_id = CachedCaseOf(specs[n], raw).case_id

\* C14: case cache reuse.  Once a case is in the cache, every later report_case
\* for the same node and raw name issues no get_cases and no add_case call and
\* submits against the cached case id; the cached case list never holds two
\* entries for one raw name.
C14_CacheReuse == []C14_OneEntry /\ [][C14_Reuse]_vars

\* a case reported a second time, from the cache, with the id it was resolved to
C14_Witness ==
    /\ lastReport.res = "cached"
    /\ lastReport.submitted
    /\ ~lastReport.listed
    /\ specs[lastReport.node].cases # <<>>
    /\ lastReport.case_id = CachedCaseOf(specs[lastReport.node], lastReport.raw).case_id

\* the node's remote section is recorded in the cache
SectionResolved(n) == specs[n] # NoEntry /\ specs[n].section_id # None

\* C15: per-entity ordering.  A node is reconciled only after its parent node's
\* section is resolved and recorded; get_cases or add_case is called for a case
\* only after its node's section is resolved; add_result_for_case is called for a
\* case only after its cache entry is appended.
C15_PerEntityOrdering ==
    /\ (pc \in {"list", "ensure"}) =>
        \A p \in Nodes :
            (\E i \in 1..Len(Children(p)) : Children(p)[i] = Head(todo)) =>
                SectionResolved(p)
    /\ lastReport.listed => SectionResolved(lastReport.node)
    /\ lastReport.submitted =>
        CachedCaseOf(specs[lastReport.node], lastReport.raw) # NoCached

\* every cached case entry is a remote case of the section cached for its node
EntriesInOwnSection ==
    \A n \in Nodes :
        specs[n] # NoEntry =>
            \A i \in 1..Len(specs[n].cases) :
                LET e == specs[n].cases[i]
                IN /\ e.section_id = specs[n].section_id
                   /\ e.case_id \in 1..Len(cases)
                   /\ cases[e.case_id].section_id = specs[n].section_id

\* C17: case resolution is scoped to the node's section.  report_case calls
\* get_cases and add_case only with the section id cached for the node, never with
\* none, and every cached case entry is a case of the section cached for its node.
C17_ScopedToSection ==
    /\ lastReport.listed => SectionResolved(lastReport.node)
    /\ EntriesInOwnSection

\* C18: one section snapshot per pass.  Within a track_top_level pass the remote
\* section list is fetched once: a get_sections call is issued only before the
\* first node of the pass is reconciled and recorded, never again for a later node.
C18_OneSnapshot ==
    [][ReconcileList => \A n \in Nodes : specs[n] = NoEntry]_vars

\* no two remote cases share title and section
NoDupCases ==
    \A i, j \in 1..Len(cases) :
        (cases[i].title = cases[j].title /\ cases[i].section_id = cases[j].section_id)
            => i = j

\* C16: concurrent case creation is serialized per section.  With report_case
\* running in several reporters interleaved at the remote calls, and every list
\* call answered, no title is created twice under one section and no cached case
\* list holds two entries for one raw name.
C16_Serialized ==
    listsOk =>
        /\ NoDupCases
        /\ \A n \in Nodes :
            \A i, j \in 1..Len(specs[n].cases) :
                specs[n].cases[i].raw_name = specs[n].cases[j].raw_name => i = j

====
